---- MODULE Spec2Model ----
(***************************************************************************)
(* Robust Bayesian Committee Machine (flare/rbcm.py).                      *)
(*                                                                         *)
(* The state is the object's per-expert parallel lists, the routing        *)
(* fields, the hyperparameters and the process-wide registry of            *)
(* flare.gp_algebra (_global_training_data and friends).  Every public     *)
(* method is one action; the methods it calls are operators on a record    *)
(* of the object's fields (Self), so that an exception raised half way     *)
(* keeps the assignments made before it.                                   *)
(*                                                                         *)
(* Matrices are symbolic: a covariance matrix is the record of the         *)
(* training entries and hyperparameters it was computed from, its          *)
(* Cholesky factor, inverse and alpha are terms over that record.          *)
(***************************************************************************)
EXTENDS Integers, Sequences, FiniteSets, TLC

\* ------------------------------------------------------------------ bounds
MaxExperts == 2      \* experts the model may grow to
MaxLabels == 3       \* environments and energy labels stored, over all experts
MaxStored == 2       \* the same, where every argument of the store is explored

\* atoms of the input structure: noa = len(struc.positions) = 2
Atoms == {0, 1}
AllAtoms == <<0, 1>>

\* ------------------------------------------------------------ option values
None == <<>>
Some(x) == <<x>>
Val(o) == o[1]

\* the exception a call ended with; NoExc when it returned normally
NoExc == "ok"

\* the error train raises for a model without training data (raise Warning)
EmptyModelError == "Warning"

\* self.logger as GaussianProcess.__init__ leaves it
TheLogger == "logger"

\* ---------------------------------------------------------- hyperparameters
\* Hyperparameter vectors are named 1, 2, 3; at BadHyps the covariance matrix
\* of a non-empty expert is not positive definite.
InitHyps == 1
BadHyps == 2
OtherHyps == 3
HypsSet == {1, 2, 3}

VARIABLES
    n_experts, current_expert, ndata_per_expert, prior_variance,
    training_data, training_labels, training_labels_np, n_envs_prev,
    training_structures, energy_labels, energy_labels_np, all_labels,
    ky_mat, l_mat, alpha, ky_mat_inv, likelihood,
    hyps, opt_algorithm, total_likelihood, total_likelihood_gradient,
    logger,
    registry, pickle_file,
    ret

vars == <<n_experts, current_expert, ndata_per_expert, prior_variance,
          training_data, training_labels, training_labels_np, n_envs_prev,
          training_structures, energy_labels, energy_labels_np, all_labels,
          ky_mat, l_mat, alpha, ky_mat_inv, likelihood,
          hyps, opt_algorithm, total_likelihood, total_likelihood_gradient,
          logger, registry, pickle_file, ret>>

\* ------------------------------------------------------------ the structure
\* forces[atom] of the input forces array, a 3-vector
ForceOf(atom) == <<10 + atom, 20 + atom, 30 + atom>>

\* AtomicEnvironment(struc, atom, ...): the environment of one atom
AtomicEnvironment(atom) == atom

TheEnergy == 7

RECURSIVE HStack(_)
\* np.hstack of a list of 3-vectors
HStack(vs) == IF vs = <<>> THEN <<>> ELSE Head(vs) \o HStack(Tail(vs))

\* ------------------------------------------------- the object as one record
\* exc: the exception that ended the running call (NoExc if none);
\* rebuilt: the experts compute_one_matrices completed for in the running call;
\* runs: the optimizer runs of the running call; methods: the method of each
\* run and whether it raised LinAlgError; pred: the value the call returns;
\* failed: the experts whose factorization raised in the running call.
\* seen: the registry entries the running call has read, with their keys.
\* results: what each run of minimize in the running call returned, in order.
\* registry and pickle_file are the module's globals and the file written by
\* write_model, carried along with the object.
Self ==
    [n_experts |-> n_experts, current_expert |-> current_expert,
     training_data |-> training_data, training_labels |-> training_labels,
     training_labels_np |-> training_labels_np, n_envs_prev |-> n_envs_prev,
     training_structures |-> training_structures,
     energy_labels |-> energy_labels, energy_labels_np |-> energy_labels_np,
     all_labels |-> all_labels,
     ky_mat |-> ky_mat, l_mat |-> l_mat, alpha |-> alpha,
     ky_mat_inv |-> ky_mat_inv, likelihood |-> likelihood,
     hyps |-> hyps, opt_algorithm |-> opt_algorithm,
     total_likelihood |-> total_likelihood,
     total_likelihood_gradient |-> total_likelihood_gradient,
     logger |-> logger,
     registry |-> registry, pickle_file |-> pickle_file,
     exc |-> NoExc, rebuilt |-> {}, runs |-> 0, methods |-> <<>>, pred |-> None,
     failed |-> {}, seen |-> {}, results |-> <<>>]

Install(m) ==
    /\ n_experts' = m.n_experts
    /\ current_expert' = m.current_expert
    /\ training_data' = m.training_data
    /\ training_labels' = m.training_labels
    /\ training_labels_np' = m.training_labels_np
    /\ n_envs_prev' = m.n_envs_prev
    /\ training_structures' = m.training_structures
    /\ energy_labels' = m.energy_labels
    /\ energy_labels_np' = m.energy_labels_np
    /\ all_labels' = m.all_labels
    /\ ky_mat' = m.ky_mat
    /\ l_mat' = m.l_mat
    /\ alpha' = m.alpha
    /\ ky_mat_inv' = m.ky_mat_inv
    /\ likelihood' = m.likelihood
    /\ hyps' = m.hyps
    /\ opt_algorithm' = m.opt_algorithm
    /\ total_likelihood' = m.total_likelihood
    /\ total_likelihood_gradient' = m.total_likelihood_gradient
    /\ logger' = m.logger
    /\ registry' = m.registry
    /\ pickle_file' = m.pickle_file
    /\ UNCHANGED <<ndata_per_expert, prior_variance>>

Raise(m, e) == [m EXCEPT !.exc = e]

\* Python list index: e in 0..n-1, or negative counting from the end;
\* -1 (no such element) when list[e] raises IndexError.  Result is 1-based.
PyIndex(e, n) ==
    IF e >= 0 /\ e < n THEN e + 1
    ELSE IF e < 0 /\ e + n >= 0 THEN e + n + 1
    ELSE -1

\* --------------------------------------------------------------- containers
\* a container without an entry for the likelihood
add_container_without_likelihood(m) ==
    [m EXCEPT
        !.training_data = Append(@, <<>>),
        !.training_labels = Append(@, <<>>),
        !.training_labels_np = Append(@, <<>>),
        !.n_envs_prev = Append(@, 0),
        !.training_structures = Append(@, <<>>),
        !.energy_labels = Append(@, <<>>),
        !.energy_labels_np = Append(@, <<>>),
        !.all_labels = Append(@, <<>>),
        !.ky_mat = Append(@, None),
        !.l_mat = Append(@, None),
        !.alpha = Append(@, None),
        !.ky_mat_inv = Append(@, None)]

add_container(m) ==
    [m EXCEPT
        !.training_data = Append(@, <<>>),
        !.training_labels = Append(@, <<>>),
        !.training_labels_np = Append(@, <<>>),
        !.n_envs_prev = Append(@, 0),
        !.training_structures = Append(@, <<>>),
        !.energy_labels = Append(@, <<>>),
        !.energy_labels_np = Append(@, <<>>),
        !.all_labels = Append(@, <<>>),
        !.ky_mat = Append(@, None),
        !.l_mat = Append(@, None),
        !.alpha = Append(@, None),
        !.ky_mat_inv = Append(@, None),
        !.likelihood = Append(@, None)]

RECURSIVE Containers(_, _)
\* __init__: for i in range(n_experts): add_container()
Containers(m, k) == IF k = 0 THEN m ELSE Containers(add_container(m), k - 1)

\* ------------------------------------------------------------------ routing
\* a router that steps back to the previous expert when the current one has
\* room
find_expert_stepping_back(m) ==
    IF m.n_envs_prev[m.current_expert + 1] > ndata_per_expert
    THEN [m EXCEPT !.current_expert = @ + 1]
    ELSE [m EXCEPT !.current_expert = IF @ > 0 THEN @ - 1 ELSE @]

\* find_expert_to_add: the record after the call; the id returned is its
\* current_expert
find_expert_to_add(m) ==
    IF m.n_envs_prev[m.current_expert + 1] > ndata_per_expert
    THEN [m EXCEPT !.current_expert = @ + 1]
    ELSE m


\* ----------------------------------------------------------------- registry
\* an entry whose label array is the expert's whole label vector
RegistryEntryAllLabels(m, e) ==
    [data |-> m.training_data[e + 1],
     labels |-> m.all_labels[e + 1],
     strucs |-> m.training_structures[e + 1],
     elabels |-> m.energy_labels_np[e + 1],
     own |-> TRUE]

\* The registry holds, per key name_i, references to the lists training_data[i]
\* and training_structures[i] (so appends show through) and the label arrays
\* as they were when the key was written (np.hstack / np.array make new
\* arrays on every update).  own: the two lists are those of the live object
\* (not those of an object that a loaded one has replaced).
RegistryEntry(m, e) ==
    [data |-> m.training_data[e + 1],
     labels |-> m.training_labels_np[e + 1],
     strucs |-> m.training_structures[e + 1],
     elabels |-> m.energy_labels_np[e + 1],
     own |-> TRUE]

\* a synchronization that leaves a key alone once it is written
sync_one_data_once(m, e) ==
    IF Len(m.training_data) > e /\ e \notin DOMAIN m.registry
    THEN [m EXCEPT !.registry = (e :> RegistryEntry(m, e)) @@ @]
    ELSE m

sync_one_data(m, e) ==
    IF Len(m.training_data) > e
    THEN [m EXCEPT !.registry = (e :> RegistryEntry(m, e)) @@ @]
    ELSE m

RECURSIVE SyncFrom(_, _)
SyncFrom(m, e) ==
    IF e >= m.n_experts THEN m ELSE SyncFrom(sync_one_data(m, e), e + 1)

\* sync_data: for i in range(n_experts): sync_one_data(i)
sync_data(m) == SyncFrom(m, 0)

\* a read of _global_training_data[name_e] and its three companions
Reads(m, e) ==
    [m EXCEPT !.seen = @ \cup {[key |-> e, entry |-> m.registry[e]]}]

RECURSIVE ReadsFrom(_, _)
ReadsFrom(m, e) ==
    IF e >= m.n_experts THEN m ELSE ReadsFrom(Reads(m, e), e + 1)

\* one read of every key name_0 .. name_(n_experts - 1)
ReadsAll(m) == ReadsFrom(m, 0)

\* the list objects the registry refers to, after an append to them
Aliased(m) ==
    [m EXCEPT !.registry =
        [e \in DOMAIN @ |->
            IF @[e].own
            THEN [@[e] EXCEPT !.data = m.training_data[e + 1],
                              !.strucs = m.training_structures[e + 1]]
            ELSE @[e]]]

\* ---------------------------------------------------------- linear algebra
\* get_Ky_mat(hyps, name_i, ...): the covariance matrix over the registry's
\* entries of key name_i: 3 rows per environment and one per structure
get_Ky_mat(m, e) ==
    [data |-> m.registry[e].data, strucs |-> m.registry[e].strucs,
     hyps |-> m.hyps]

MatSize(ky) == 3 * Len(ky.data) + Len(ky.strucs)

\* np.linalg.cholesky raises LinAlgError on a matrix that is not positive
\* definite
NotPositiveDefinite(ky) == ky.hyps = BadHyps /\ MatSize(ky) > 0

Cholesky(ky) == [chol |-> ky]
InvFromChol(l) == [inv |-> l.chol]
MatVec(kinv, labels) == [inv |-> kinv.inv, labels |-> labels]

\* alpha.shape[0]
AlphaLen(a) == Len(a.labels)

\* get_like_from_mats(ky_mat, l_mat, alpha, name_i)
get_like_from_mats(m, e) ==
    [ky |-> Val(m.ky_mat[e + 1]), alpha |-> Val(m.alpha[e + 1])]

\* a factorization that catches its numerical failure and stores what it has
compute_one_matrices_swallowing(m, ky, e) ==
    IF MatSize(ky) # Len(m.all_labels[e + 1]) THEN Raise(m, "ValueError")
    ELSE LET l == Cholesky(ky)
             kinv == InvFromChol(l)
         IN [m EXCEPT
                !.failed = IF NotPositiveDefinite(ky) THEN @ \cup {e} ELSE @,
                !.ky_mat[e + 1] = Some(ky),
                !.l_mat[e + 1] = Some(l),
                !.alpha[e + 1] = Some(MatVec(kinv, m.all_labels[e + 1])),
                !.ky_mat_inv[e + 1] = Some(kinv),
                !.n_envs_prev[e + 1] = Len(m.training_data[e + 1]),
                !.rebuilt = @ \cup {e}]

\* a factorization that stores the covariance matrix before it factorizes it
compute_one_matrices_storing_first(m, ky, e) ==
    IF NotPositiveDefinite(ky)
    THEN [Raise(m, "LinAlgError") EXCEPT !.failed = @ \cup {e},
                                         !.ky_mat[e + 1] = Some(ky)]
    ELSE IF MatSize(ky) # Len(m.all_labels[e + 1]) THEN Raise(m, "ValueError")
    ELSE LET l == Cholesky(ky)
             kinv == InvFromChol(l)
         IN [m EXCEPT
                !.ky_mat[e + 1] = Some(ky),
                !.l_mat[e + 1] = Some(l),
                !.alpha[e + 1] = Some(MatVec(kinv, m.all_labels[e + 1])),
                !.ky_mat_inv[e + 1] = Some(kinv),
                !.n_envs_prev[e + 1] = Len(m.training_data[e + 1]),
                !.rebuilt = @ \cup {e}]

compute_one_matrices(m, ky, e) ==
    IF NotPositiveDefinite(ky)
    THEN [Raise(m, "LinAlgError") EXCEPT !.failed = @ \cup {e}]
    ELSE IF MatSize(ky) # Len(m.all_labels[e + 1]) THEN Raise(m, "ValueError")
    ELSE LET l == Cholesky(ky)
             kinv == InvFromChol(l)
         IN [m EXCEPT
                !.ky_mat[e + 1] = Some(ky),
                !.l_mat[e + 1] = Some(l),
                !.alpha[e + 1] = Some(MatVec(kinv, m.all_labels[e + 1])),
                !.ky_mat_inv[e + 1] = Some(kinv),
                !.n_envs_prev[e + 1] = Len(m.training_data[e + 1]),
                !.rebuilt = @ \cup {e}]

set_L_alpha_part(m, e) ==
    LET m1 == Reads(sync_one_data(m, e), e)
        m2 == compute_one_matrices(m1, get_Ky_mat(m1, e), e)
    IN IF m2.exc # NoExc THEN m2
       ELSE [m2 EXCEPT !.likelihood[e + 1] = Some(get_like_from_mats(m2, e))]

\* np.array(self.ky_mat[expert_id]) is np.array(None): two fresh objects
KyIsNoneArray(m, e) == FALSE

update_L_alpha(m, e) ==
    IF m.l_mat[e + 1] = None \/ KyIsNoneArray(m, e)
    THEN set_L_alpha_part(m, e)
    \* self.sync_data(expert_id): sync_data takes no argument
    ELSE Raise(m, "TypeError")

RECURSIVE CheckFrom(_, _)
CheckFrom(m, i) ==
    IF i >= m.n_experts \/ m.exc # NoExc THEN m
    ELSE LET size3 == Len(m.training_data[i + 1]) * 3
         IN IF size3 = 0 THEN m
            \* self.alpha is a list, never None; alpha[i].shape of None
            ELSE IF m.alpha[i + 1] = None THEN Raise(m, "AttributeError")
            ELSE IF size3 > AlphaLen(Val(m.alpha[i + 1]))
                 THEN CheckFrom(update_L_alpha(m, i), i + 1)
            ELSE IF size3 # AlphaLen(Val(m.alpha[i + 1]))
                 THEN CheckFrom(set_L_alpha_part(m, i), i + 1)
            ELSE CheckFrom(m, i + 1)

check_L_alpha(m) == CheckFrom(sync_data(m), 0)

RECURSIVE SetFrom(_, _)
SetFrom(m, e) ==
    IF e >= m.n_experts \/ m.exc # NoExc THEN m
    \* self.logger.debug(...) of line 486
    ELSE IF m.logger = None THEN Raise(m, "AttributeError")
    ELSE LET m2 == compute_one_matrices(Reads(m, e), get_Ky_mat(m, e), e)
         IN IF m2.exc # NoExc THEN m2
            ELSE SetFrom([m2 EXCEPT !.likelihood[e + 1] =
                                       Some(get_like_from_mats(m2, e))], e + 1)

\* np.sum(self.likelihood)
SumLikelihood(m) == m.likelihood

set_L_alpha(m) ==
    LET m1 == SetFrom(sync_data(m), 0)
    IN IF m1.exc # NoExc THEN m1
       ELSE [m1 EXCEPT !.total_likelihood = Some(SumLikelihood(m1))]


\* ---------------------------------------------------------------- update_db
RECURSIVE AppendForces(_, _, _)
\* for atom in update_indices: append the environment and the force of atom
\* to expert eid.  An atom index outside the structure, or an expert id
\* outside the lists, raises IndexError and keeps what was appended before.
AppendForces(m, eid, indices) ==
    IF indices = <<>> THEN m
    ELSE LET atom == Head(indices)
             idx == PyIndex(eid, Len(m.training_data))
         IN IF atom \notin Atoms \/ idx = -1 THEN Raise(m, "IndexError")
            ELSE AppendForces(
                    [m EXCEPT
                        !.training_data[idx] = Append(@, AtomicEnvironment(atom)),
                        !.training_labels[idx] = Append(@, ForceOf(atom)),
                        !.n_envs_prev[idx] = @ + 1],
                    eid, Tail(indices))

\* an update that takes every atom whatever custom_range is
UpdateIndicesAllAtoms(custom_range) == AllAtoms

\* custom_range or list(range(noa))
UpdateIndices(custom_range) ==
    IF custom_range = <<>> THEN AllAtoms ELSE custom_range

\* a growth that already happens when the last expert is the target
RouteAndGrowEagerly(m, expert_id) ==
    LET m1 == IF expert_id = None THEN find_expert_to_add(m) ELSE m
        eid == IF expert_id = None THEN m1.current_expert ELSE Val(expert_id)
    IN IF eid + 1 >= m1.n_experts
       THEN [add_container(m1) EXCEPT !.n_experts = @ + 1]
       ELSE m1

\* a growth step that consults the router also when an expert id is given
RouteAndGrowAlwaysRouting(m, expert_id) ==
    LET m1 == find_expert_to_add(m)
        eid == IF expert_id = None THEN m1.current_expert ELSE Val(expert_id)
    IN IF eid >= m1.n_experts
       THEN [add_container(m1) EXCEPT !.n_experts = @ + 1]
       ELSE m1

\* lines 162-167: route when no expert id is given, grow when the id is new
RouteAndGrow(m, expert_id) ==
    LET m1 == IF expert_id = None THEN find_expert_to_add(m) ELSE m
        eid == IF expert_id = None THEN m1.current_expert ELSE Val(expert_id)
    IN IF eid >= m1.n_experts
       THEN [add_container(m1) EXCEPT !.n_experts = @ + 1]
       ELSE m1

TargetId(m, expert_id) ==
    IF expert_id = None THEN find_expert_to_add(m).current_expert
    ELSE Val(expert_id)

\* lines 174-185
UpdateForces(m, eid, custom_range) ==
    LET m1 == AppendForces(m, eid, UpdateIndices(custom_range))
        idx == PyIndex(eid, Len(m1.training_data))
    IN IF m1.exc # NoExc THEN m1
       ELSE [m1 EXCEPT !.training_labels_np[idx] = HStack(m1.training_labels[idx])]

\* an energy update that stores the label without the structure
UpdateEnergyLabelOnly(m, eid) ==
    LET idx == PyIndex(eid, Len(m.training_data))
    IN IF idx = -1 THEN Raise(m, "IndexError")
       ELSE [m EXCEPT
                !.energy_labels[idx] = Append(@, TheEnergy),
                !.energy_labels_np[idx] = Append(m.energy_labels[idx], TheEnergy)]

\* lines 188-198
UpdateEnergy(m, eid) ==
    LET idx == PyIndex(eid, Len(m.training_data))
        structure_list == [k \in 1 .. Len(AllAtoms) |-> AtomicEnvironment(AllAtoms[k])]
    IN IF idx = -1 THEN Raise(m, "IndexError")
       ELSE [m EXCEPT
                !.energy_labels[idx] = Append(@, TheEnergy),
                !.training_structures[idx] = Append(@, structure_list),
                !.energy_labels_np[idx] = Append(m.energy_labels[idx], TheEnergy)]

\* lines 201-202
UpdateAllLabels(m, eid) ==
    LET idx == PyIndex(eid, Len(m.training_data))
    IN IF idx = -1 THEN Raise(m, "IndexError")
       ELSE [m EXCEPT !.all_labels[idx] =
                m.training_labels_np[idx] \o m.energy_labels_np[idx]]

\* forces, energy: whether the argument is given (not None)
update_db(m, custom_range, forces, energy, expert_id) ==
    LET eid == TargetId(m, expert_id)
        m1 == RouteAndGrow(m, expert_id)
        m2 == IF forces THEN UpdateForces(m1, eid, custom_range) ELSE m1
        m3 == IF m2.exc = NoExc /\ energy THEN UpdateEnergy(m2, eid) ELSE m2
        m4 == IF m3.exc = NoExc THEN UpdateAllLabels(m3, eid) ELSE m3
    IN Aliased(m4)


\* an append that puts the new environment and force in front
AppendOneEnvAtFront(m, eid, env) ==
    LET idx == PyIndex(eid, Len(m.training_data))
    IN IF idx = -1 THEN Raise(m, "IndexError")
       ELSE [m EXCEPT
                !.training_data[idx] = <<env>> \o @,
                !.training_labels[idx] = <<ForceOf(env)>> \o @,
                !.training_labels_np[idx] =
                    HStack(<<ForceOf(env)>> \o m.training_labels[idx]),
                !.n_envs_prev[idx] = @ + 1,
                !.all_labels[idx] =
                    HStack(<<ForceOf(env)>> \o m.training_labels[idx])
                        \o m.energy_labels_np[idx]]

\* an append that does not count the environment
AppendOneEnvUncounted(m, eid, env) ==
    LET idx == PyIndex(eid, Len(m.training_data))
    IN IF idx = -1 THEN Raise(m, "IndexError")
       ELSE [m EXCEPT
                !.training_data[idx] = Append(@, env),
                !.training_labels[idx] = Append(@, ForceOf(env)),
                !.training_labels_np[idx] =
                    HStack(Append(m.training_labels[idx], ForceOf(env))),
                !.all_labels[idx] =
                    HStack(Append(m.training_labels[idx], ForceOf(env)))
                        \o m.energy_labels_np[idx]]

\* -------------------------------------------------------------- add_one_env
\* lines 227-234
AppendOneEnv(m, eid, env) ==
    LET idx == PyIndex(eid, Len(m.training_data))
    IN IF idx = -1 THEN Raise(m, "IndexError")
       ELSE [m EXCEPT
                !.training_data[idx] = Append(@, env),
                !.training_labels[idx] = Append(@, ForceOf(env)),
                !.training_labels_np[idx] =
                    HStack(Append(m.training_labels[idx], ForceOf(env))),
                !.n_envs_prev[idx] = @ + 1,
                !.all_labels[idx] =
                    HStack(Append(m.training_labels[idx], ForceOf(env)))
                        \o m.energy_labels_np[idx]]

\* ------------------------------------------------------------------- train
\* An optimizer run ends with a hyperparameter vector of HypsSet, or raises
\* np.linalg.LinAlgError (LinAlgFail).
LinAlgFail == -1
OptOutcomes == HypsSet \cup {LinAlgFail}

\* one call of scipy's minimize with the given method: it raises
\* LinAlgError (o = LinAlgFail) or returns the hyperparameters o
Minimized(m, method, o) ==
    [m EXCEPT !.runs = @ + 1,
              !.methods = Append(@, <<method, o = LinAlgFail>>),
              !.results = Append(@, IF o = LinAlgFail THEN None ELSE Some(o)),
              !.pred = IF o = LinAlgFail THEN @ ELSE Some(o)]

\* lines 289-321; res is None or Some(x)
Optimize(m, custom_bounds, o1, o2) ==
    LET first == m.opt_algorithm = "L-BFGS-B"
        m1 == IF first
              THEN IF o1 = LinAlgFail
                   \* self.logger.warning(...) of line 306
                   THEN IF m.logger = None
                        THEN Raise(Minimized(m, "L-BFGS-B", o1),
                                   "AttributeError")
                        ELSE [Minimized(m, "L-BFGS-B", o1) EXCEPT
                                 !.opt_algorithm = "BFGS"]
                   ELSE Minimized(m, "L-BFGS-B", o1)
              ELSE m
    IN IF m1.exc # NoExc THEN m1
       ELSE IF custom_bounds
       THEN IF o2 = LinAlgFail
            THEN [Raise(Minimized(m1, "L-BFGS-B", o2), "LinAlgError") EXCEPT
                     !.pred = None]
            ELSE Minimized(m1, "L-BFGS-B", o2)
       ELSE IF m1.opt_algorithm = "BFGS"
       THEN IF o2 = LinAlgFail
            THEN [Raise(Minimized(m1, "BFGS", o2), "LinAlgError") EXCEPT
                     !.pred = None]
            ELSE Minimized(m1, "BFGS", o2)
       ELSE m1

\* ----------------------------------------------------- the training objective
\* get_neg_like_grad(hyps, name_i, ...): the negative log likelihood of expert
\* i and its gradient, as the kernel gives them
get_neg_like_grad(x, i, values) == values[i + 1]

\* the element-wise sum of two gradients
VecAdd(u, v) == [k \in DOMAIN u |-> u[k] + v[k]]

\* a pass that replaces the gradient instead of adding to it
LikeStepOverwriting(acc, x, i, values) ==
    LET r == get_neg_like_grad(x, i, values)
    IN [like |-> acc.like + r.like,
        like_grad |-> Some(r.grad),
        calls |-> Append(acc.calls, <<x, i>>)]

\* one pass of the loop of lines 709-717; calls: the (hyps, key index) of
\* every get_neg_like_grad call made
LikeStep(acc, x, i, values) ==
    LET r == get_neg_like_grad(x, i, values)
    IN [like |-> acc.like + r.like,
        like_grad |-> IF acc.like_grad = None THEN Some(r.grad)
                      ELSE Some(VecAdd(Val(acc.like_grad), r.grad)),
        calls |-> Append(acc.calls, <<x, i>>)]

RECURSIVE LikeLoop(_, _, _, _, _)
LikeLoop(acc, x, n, i, values) ==
    IF i >= n THEN acc
    ELSE LikeLoop(LikeStep(acc, x, i, values), x, n, i + 1, values)

rbcm_get_neg_like_grad(x, n, values) ==
    LikeLoop([like |-> 0, like_grad |-> None, calls |-> <<>>], x, n, 0, values)

\* a train that goes on with the starting hyperparameters when no optimizer
\* gave a result
train_unchecked(m, custom_bounds, o1, o2) ==
    IF Len(m.training_data) = 0 \/ Len(m.training_labels) = 0
    THEN Raise(m, EmptyModelError)
    ELSE LET m1 == Optimize(sync_data(m), custom_bounds, o1, o2)
             x == IF m1.pred = None THEN m1.hyps ELSE Val(m1.pred)
         IN IF m1.exc # NoExc THEN m1
            ELSE LET m2 == set_L_alpha([m1 EXCEPT !.hyps = x])
                 IN IF m2.exc # NoExc THEN [m2 EXCEPT !.pred = None]
                    ELSE [m2 EXCEPT
                            !.total_likelihood = Some(<<"-res.fun", x>>),
                            !.total_likelihood_gradient =
                                Some(<<"-res.jac", x>>)]

\* a train that factorizes before it stores the optimized hyperparameters
train_factorizing_first(m, custom_bounds, o1, o2) ==
    IF Len(m.training_data) = 0 \/ Len(m.training_labels) = 0
    THEN Raise(m, EmptyModelError)
    ELSE LET m1 == Optimize(sync_data(m), custom_bounds, o1, o2)
         IN IF m1.exc # NoExc THEN m1
            ELSE IF m1.pred = None THEN Raise(m1, "RuntimeError")
            ELSE LET m2 == set_L_alpha(m1)
                 IN IF m2.exc # NoExc THEN [m2 EXCEPT !.pred = None]
                    ELSE [m2 EXCEPT
                            !.hyps = Val(m1.pred),
                            !.total_likelihood =
                                Some(<<"-res.fun", Val(m1.pred)>>),
                            !.total_likelihood_gradient =
                                Some(<<"-res.jac", Val(m1.pred)>>)]

train(m, custom_bounds, o1, o2) ==
    IF Len(m.training_data) = 0 \/ Len(m.training_labels) = 0
    THEN Raise(m, EmptyModelError)
    \* the objective reads every key on each evaluation
    ELSE LET m1 == Optimize(ReadsAll(sync_data(m)), custom_bounds, o1, o2)
         IN IF m1.exc # NoExc THEN m1
            ELSE IF m1.pred = None THEN Raise(m1, "RuntimeError")
            ELSE LET m2 == set_L_alpha([m1 EXCEPT !.hyps = Val(m1.pred)])
                 IN IF m2.exc # NoExc THEN [m2 EXCEPT !.pred = None]
                    ELSE [m2 EXCEPT
                            !.total_likelihood =
                                Some(<<"-res.fun", Val(m1.pred)>>),
                            !.total_likelihood_gradient =
                                Some(<<"-res.jac", Val(m1.pred)>>)]

add_one_env(m, env, do_train, expert_id, custom_bounds, o1, o2) ==
    LET eid == TargetId(m, expert_id)
        m0 == RouteAndGrow(m, expert_id)
        \* self.logger.debug(...) of line 225
        m1 == IF m0.logger = None THEN Raise(m0, "AttributeError")
              ELSE AppendOneEnv(m0, eid, env)
        m2 == Aliased(m1)
    IN IF m2.exc = NoExc /\ do_train THEN train(m2, custom_bounds, o1, o2)
       ELSE m2


\* ------------------------------------------------------- rational numbers
\* Floating-point values are modelled as exact fractions <<num, den>>, den > 0.
RECURSIVE GCD(_, _)
GCD(a, b) == IF b = 0 THEN a ELSE GCD(b, a % b)

Abs(a) == IF a < 0 THEN -a ELSE a

Rat(n, d) ==
    LET g == GCD(Abs(n), Abs(d))
        sgn == IF d < 0 THEN -1 ELSE 1
    IN <<sgn * (n \div g), sgn * (d \div g)>>

RInt(n) == <<n, 1>>
RAdd(x, y) == Rat(x[1] * y[2] + y[1] * x[2], x[2] * y[2])
RSub(x, y) == Rat(x[1] * y[2] - y[1] * x[2], x[2] * y[2])
RMul(x, y) == Rat(x[1] * y[1], x[2] * y[2])
RDiv(x, y) == Rat(x[1] * y[2], x[2] * y[1])

\* np.log on the variances that occur, to two decimals
LogTable == <<0, 69, 110, 139>>
Log(v) == Rat(LogTable[v[1]], 100)

\* ------------------------------------------------------------------ predict
\* get_kernel_vector(name_i, ...): one entry per label of the registry's
\* entries of key name_i; only its length is kept
KernelVectorLen(m, i) ==
    3 * Len(m.registry[i].data) + Len(m.registry[i].strucs)

\* self.log_prior_var = np.log(prior_variance)
log_prior_var == Log(RInt(prior_variance))

\* a pass that weights by the whole log ratio, without the factor 0.5
ExpertTermWholeLog(acc, self_kern, mean_k, quad) ==
    LET var_k == RSub(RInt(self_kern), quad)
        beta_k == RSub(Log(RInt(prior_variance)), Log(var_k))
    IN [mean |-> RAdd(acc.mean, RMul(RDiv(beta_k, var_k), mean_k)),
        var |-> RAdd(acc.var, RDiv(beta_k, var_k)),
        beta |-> RAdd(acc.beta, beta_k)]

\* One pass of the loop of lines 395-408.  acc = [mean, var, beta];
\* mean_k = k_v . alpha and quad = k_v K^-1 k_v come from the kernel, both 0
\* for an expert without labels.
ExpertTerm(acc, self_kern, mean_k, quad) ==
    LET var_k == RSub(RInt(self_kern), quad)
        beta_k == RMul(Rat(1, 2), RSub(log_prior_var, Log(var_k)))
    IN [mean |-> RAdd(acc.mean, RMul(RDiv(beta_k, var_k), mean_k)),
        var |-> RAdd(acc.var, RDiv(beta_k, var_k)),
        beta |-> RAdd(acc.beta, beta_k)]

RECURSIVE Accumulate(_, _, _, _, _)
\* the loop of lines 395-408 from expert i on; kv[i + 1] is len(k_v[i]),
\* kern[i + 1] the kernel products of expert i
Accumulate(m, acc, i, self_kern, kern) ==
    IF i >= m.n_experts THEN acc
    ELSE Accumulate(m,
            ExpertTerm(acc, self_kern,
                IF AlphaLen(Val(m.alpha[i + 1])) = 0 THEN RInt(0)
                ELSE RInt(kern[i + 1].mean),
                IF AlphaLen(Val(m.alpha[i + 1])) = 0 THEN RInt(0)
                ELSE RInt(kern[i + 1].quad)),
            i + 1, self_kern, kern)

\* lines 410-414
Finish(acc) ==
    LET var == RAdd(acc.var,
                    RDiv(RSub(RInt(1), acc.beta), RInt(prior_variance)))
        pred_var == RDiv(RInt(1), var)
    IN <<RMul(pred_var, acc.mean), pred_var>>

\* np.matmul(k_v[i], alpha[i]) and np.matmul(k_v[i], ky_mat_inv[i]) need an
\* alpha and an inverse of the length of k_v[i]
ShapesAgree(m, kv) ==
    \A i \in 0 .. (m.n_experts - 1) :
        /\ m.alpha[i + 1] # None
        /\ AlphaLen(Val(m.alpha[i + 1])) = kv[i + 1]
        /\ MatSize(Val(m.ky_mat_inv[i + 1]).inv) = kv[i + 1]

\* a prediction that synchronizes the registry before it looks at d
predict_sync_first(m, d, self_kern, kern) ==
    LET m1 == sync_data(m)
        kv == [k \in 1 .. m1.n_experts |-> KernelVectorLen(m1, k - 1)]
        m2 == check_L_alpha(m1)
    IN IF d \notin {1, 2, 3} THEN Raise(m1, "AssertionError")
       ELSE IF m2.exc # NoExc THEN m2
       ELSE IF ~ShapesAgree(m2, kv) THEN Raise(m2, "ValueError")
       ELSE [m2 EXCEPT !.pred =
               Some(Finish(Accumulate(m2,
                   [mean |-> RInt(0), var |-> RInt(0), beta |-> RInt(0)],
                   0, self_kern, kern)))]

predict(m, d, self_kern, kern) ==
    IF d \notin {1, 2, 3} THEN Raise(m, "AssertionError")
    ELSE LET m1 == ReadsAll(sync_data(m))
             kv == [k \in 1 .. m1.n_experts |-> KernelVectorLen(m1, k - 1)]
             m2 == check_L_alpha(m1)
         IN IF m2.exc # NoExc THEN m2
            ELSE IF ~ShapesAgree(m2, kv) THEN Raise(m2, "ValueError")
            ELSE [m2 EXCEPT !.pred =
                    Some(Finish(Accumulate(m2,
                        [mean |-> RInt(0), var |-> RInt(0), beta |-> RInt(0)],
                        0, self_kern, kern)))]


\* ------------------------------------------------- the caller's own edits
\* The per-expert lists are public attributes.  A caller replaces entry k of
\* expert i (1-based) by another environment and its force, and keeps the
\* label arrays in step, as update_db does; the number of entries stays.
replace_entry(m, i, k, env) ==
    LET labels == [m.training_labels[i] EXCEPT ![k] = ForceOf(env)]
    IN Aliased([m EXCEPT
                  !.training_data[i][k] = env,
                  !.training_labels[i] = labels,
                  !.training_labels_np[i] = HStack(labels),
                  !.all_labels[i] = HStack(labels) \o m.energy_labels_np[i]])

\* ------------------------------------------------------ training_statistics
\* struc.coded_species: the atomic number of each atom of the structure
CodedSpecies == <<1, 6>>

\* Z_to_element on the atomic numbers that occur
Z_to_element(Z) == IF Z = 1 THEN "H" ELSE "C"

\* zip(training_data[i], training_labels[i]) stops at the shorter list
ZipLen(m, i) ==
    IF Len(m.training_data[i]) <= Len(m.training_labels[i])
    THEN Len(m.training_data[i]) ELSE Len(m.training_labels[i])

RECURSIVE PresentSpecies(_, _)
\* present_species after the loop over experts i, i + 1, ... (1-based)
PresentSpecies(m, i) ==
    IF i > m.n_experts THEN <<>>
    ELSE [k \in 1 .. ZipLen(m, i) |->
             Z_to_element(CodedSpecies[m.training_data[i][k] + 1])]
         \o PresentSpecies(m, i + 1)

\* Counter(present_species)
Counter(list) ==
    [s \in {list[k] : k \in DOMAIN list} |->
        Cardinality({k \in DOMAIN list : list[k] = s})]

training_statistics(m) ==
    [N |-> [i \in 0 .. (m.n_experts - 1) |-> m.n_envs_prev[i + 1]],
     species |-> {PresentSpecies(m, 1)[k] : k \in DOMAIN PresentSpecies(m, 1)},
     envs_by_species |-> Counter(PresentSpecies(m, 1))]

\* ------------------------------------------------------------- persistence
\* format.lower() on the format names that occur
Lower(format) ==
    CASE format = "Pickle" -> "pickle"
      [] format = "JSON" -> "json"
      [] OTHER -> format

\* the attributes of the object, as pickle sees them: the registry is a
\* module global and no attribute
Attributes ==
    {"n_experts", "current_expert",
     "training_data", "training_labels", "training_labels_np", "n_envs_prev",
     "training_structures", "energy_labels", "energy_labels_np", "all_labels",
     "ky_mat", "l_mat", "alpha", "ky_mat_inv", "likelihood",
     "hyps", "opt_algorithm", "total_likelihood", "total_likelihood_gradient",
     "logger"}

\* a dump that leaves the factorization out of the snapshot
PickledWithoutMatrices(m) ==
    [k \in Attributes |->
        IF k \in {"ky_mat", "l_mat", "alpha", "ky_mat_inv"}
        THEN [i \in DOMAIN m[k] |-> None]
        ELSE m[k]]

\* pickle.dump(self, f): the attributes as they are at the dump
Pickled(m) == [k \in Attributes |-> m[k]]

\* write_model(name, format) as the class binds it: the definition of lines
\* 636-662, which replaces the one of lines 542-564.  The file is name.pickle.
write_model(m, format) ==
    LET m1 == [m EXCEPT !.logger = None]
    IN IF Lower(format) = "json" THEN Raise(m1, "ValueError")
       ELSE IF Lower(format) = "pickle" \/ Lower(format) = "binary"
       THEN [m1 EXCEPT !.pickle_file = Some(Pickled(m1)),
                       !.logger = m.logger]
       ELSE Raise(m1, "ValueError")

\* the file write_model(name) writes, and other names a caller may pass
PickleName == "model.pickle"
FileNames == {PickleName, "model"}
LoadFormats == {"", "json"}

\* '.json' in filename or 'json' in format
NamesJson(filename, format) == filename = "model.json" \/ format = "json"

\* '.pickle' in filename or 'pickle' in format
NamesPickle(filename, format) == filename = PickleName \/ format = "pickle"

\* GaussianProcess.backward_arguments / backward_attributes: defaults for
\* attributes a snapshot of an older version lacks; a snapshot written by
\* write_model lacks none
backward_attributes(m) == m

\* pickle.load(f): the snapshot's attributes
Unpickled(m) == Val(m.pickle_file) @@ m

\* from_file(filename, format): the record is the loaded gp_model when the
\* call returns, the caller's object when it raises
from_file(m, filename, format) ==
    \* supported_formats is no name of from_file's scope
    IF NamesJson(filename, format) THEN Raise(m, "NameError")
    ELSE IF NamesPickle(filename, format)
    THEN IF filename # PickleName \/ m.pickle_file = None
         THEN Raise(m, "FileNotFoundError")
         ELSE backward_attributes(Unpickled(m))
    ELSE Raise(m, "ValueError")

\* the registry as the loaded object finds it: empty in a new process; in the
\* process that saved, the entries of the object it replaces
RegistryAtLoad(m, fresh) ==
    IF m.exc # NoExc THEN m
    ELSE [m EXCEPT !.registry =
            IF fresh THEN <<>>
            ELSE [e \in DOMAIN @ |-> [@[e] EXCEPT !.own = FALSE]]]

\* --------------------------------------------------------------- the inputs
\* custom_range: empty (all atoms), one atom, or a list whose second index is
\* outside the structure
CustomRanges == {<<>>, <<1>>, <<0, 2>>}

\* expert_id: None (route), or an id: the first expert, the last one counted
\* from the end, the next new one, or one beyond the lists
ExpertIdArgs == {None} \cup {Some(k) : k \in {-1, 0, n_experts, n_experts + 1}}

\* the narrower choice: route, or the last expert
RouteOrLast == {None, Some(-1)}

\* kernel(x_t, x_t, d, d), and the products k_v . alpha and k_v K^-1 k_v of an
\* expert that holds labels
SelfKerns == {2, 4}
KernProducts == {[mean |-> 1, quad |-> 0], [mean |-> -2, quad |-> 1]}
PriorVariances == {2, 4}
InitExperts == {1, 2}
NDataChoices == {0, 1}

\* opt_algorithm: the two methods train knows, and another one
OptAlgorithms == {"L-BFGS-B", "BFGS", "nelder-mead"}

\* format of write_model: the default, the two pickle names, one of them
\* capitalized, and a name the method does not know
Formats == {"json", "Pickle", "binary", "yaml"}

\* per-expert results of get_neg_like_grad
LikeResults == {[like |-> 1, grad |-> <<1, 0>>], [like |-> -2, grad |-> <<0, 3>>]}

\* ---------------------------------------------------------------- the state
\* ret: the public call that ran last, its arguments and how it ended.
\* repeat: a check_L_alpha that follows a check_L_alpha which returned normally.
\* x_0, values: the hyperparameters an objective evaluation was given and the
\* per-expert likelihoods and gradients the kernel gave it.
Ret(op, m, args) ==
    args @@ [op |-> op, exc |-> m.exc, rebuilt |-> m.rebuilt, runs |-> m.runs,
             methods |-> m.methods, failed |-> m.failed, seen |-> m.seen,
             results |-> m.results,
             overlapped |-> FALSE,
             pred |-> IF m.exc = NoExc THEN m.pred ELSE None,
             expert |-> -9, routed |-> FALSE, custom_range |-> <<>>,
             forces |-> FALSE, energy |-> FALSE,
             d |-> 0, self_kern |-> 0, kern |-> <<>>, repeat |-> FALSE,
             custom_bounds |-> FALSE, x_0 |-> 0, values |-> <<>>,
             format |-> "", filename |-> ""]

Empty ==
    [n_experts |-> 0, current_expert |-> 0,
     training_data |-> <<>>, training_labels |-> <<>>,
     training_labels_np |-> <<>>, n_envs_prev |-> <<>>,
     training_structures |-> <<>>,
     energy_labels |-> <<>>, energy_labels_np |-> <<>>, all_labels |-> <<>>,
     ky_mat |-> <<>>, l_mat |-> <<>>, alpha |-> <<>>,
     ky_mat_inv |-> <<>>, likelihood |-> <<>>,
     hyps |-> InitHyps, opt_algorithm |-> "L-BFGS-B",
     total_likelihood |-> None,
     total_likelihood_gradient |-> None,
     logger |-> Some(TheLogger),
     registry |-> <<>>, pickle_file |-> None,
     exc |-> NoExc, rebuilt |-> {}, runs |-> 0, methods |-> <<>>, pred |-> None,
     failed |-> {}, seen |-> {}, results |-> <<>>]

\* __init__(n_experts, ndata_per_expert, prior_variance)
Constructed(n) == [Containers(Empty, n) EXCEPT !.n_experts = n]

\* the state after construction as c
InitFrom(c, ndatas, variances) ==
    /\ ndata_per_expert \in ndatas
    /\ prior_variance \in variances
    /\ n_experts = c.n_experts
    /\ current_expert = c.current_expert
    /\ training_data = c.training_data
    /\ training_labels = c.training_labels
    /\ training_labels_np = c.training_labels_np
    /\ n_envs_prev = c.n_envs_prev
    /\ training_structures = c.training_structures
    /\ energy_labels = c.energy_labels
    /\ energy_labels_np = c.energy_labels_np
    /\ all_labels = c.all_labels
    /\ ky_mat = c.ky_mat
    /\ l_mat = c.l_mat
    /\ alpha = c.alpha
    /\ ky_mat_inv = c.ky_mat_inv
    /\ likelihood = c.likelihood
    /\ hyps = c.hyps
    /\ opt_algorithm = c.opt_algorithm
    /\ total_likelihood = c.total_likelihood
    /\ total_likelihood_gradient = c.total_likelihood_gradient
    /\ logger = c.logger
    /\ registry = c.registry
    /\ pickle_file = c.pickle_file
    /\ ret = Ret("__init__", c, <<>>)

InitWith(experts, ndatas, variances) ==
    \E n \in experts : InitFrom(Constructed(n), ndatas, variances)

\* ------------------------------------------- a second model of the same name
\* Another RobustBayesianCommitteeMachine constructed with the same name (the
\* default 'default_gp') and n experts, after one update_db with forces on the
\* atoms of custom_range into its first expert.
OtherModel(n, custom_range) ==
    update_db(Constructed(n), custom_range, TRUE, FALSE, Some(0))

Others == {OtherModel(1, <<0>>), OtherModel(2, <<0, 1>>)}

\* sync_data of the model b on the registry that m uses: the keys name_i are
\* the same, the lists written are those of b
sync_data_of(b, m) ==
    LET theirs == sync_data([b EXCEPT !.registry = m.registry]).registry
    IN [m EXCEPT !.registry =
           [e \in DOMAIN theirs |->
               IF e < b.n_experts THEN [theirs[e] EXCEPT !.own = FALSE]
               ELSE theirs[e]]]

\* set_L_alpha of m with the sync_data of b run between its own sync_data
\* (line 482) and its first get_Ky_mat (line 489)
set_L_alpha_overlapped(m, b) ==
    LET m1 == SetFrom(sync_data_of(b, sync_data(m)), 0)
    IN IF m1.exc # NoExc THEN m1
       ELSE [m1 EXCEPT !.total_likelihood = Some(SumLikelihood(m1))]

RECURSIVE StoredFrom(_, _)
\* the environments and energy labels stored in experts i, i + 1, ...
StoredFrom(m, i) ==
    IF i > Len(m.training_data) THEN 0
    ELSE Len(m.training_data[i]) + Len(m.energy_labels[i])
         + StoredFrom(m, i + 1)

\* the bounds of the exploration
Within(m, labels) ==
    /\ m.n_experts <= MaxExperts
    /\ StoredFrom(m, 1) <= labels

\* the call op returns (or raises) leaving the object as m
Return(op, m, args) ==
    /\ Install(m)
    /\ ret' = Ret(op, m, args)

\* ------------------------------------------------------------ the actions
\* Every action is one public call, with its arguments drawn from the sets
\* it is given; labels bounds what the calls that store data may store.
UpdateDb(ranges, force_args, energy_args, ids, labels) ==
    \E self \in {Self}, custom_range \in ranges, forces \in force_args,
       energy \in energy_args, expert_id \in ids :
        \E m \in {update_db(self, custom_range, forces, energy, expert_id)} :
            /\ Within(m, labels)
            /\ Return("update_db", m,
                      [expert |-> TargetId(self, expert_id),
                       routed |-> expert_id = None,
                       custom_range |-> custom_range,
                       forces |-> forces, energy |-> energy])

AddOneEnv(envs, ids, labels) ==
    \E self \in {Self}, env \in envs, expert_id \in ids :
        \E m \in {add_one_env(self, env, FALSE, expert_id, FALSE, 0, 0)} :
            /\ Within(m, labels)
            /\ Return("add_one_env", m,
                      [expert |-> TargetId(self, expert_id),
                       routed |-> expert_id = None,
                       custom_range |-> <<env>>, forces |-> TRUE])

\* add_one_env(env, force, train=True)
AddOneEnvTrain(envs, outcomes, labels) ==
    \E self \in {Self}, env \in envs, o1 \in outcomes, o2 \in outcomes :
        /\ (o1 = LinAlgFail \/ o2 = o1)
        /\ \E m \in {add_one_env(self, env, TRUE, None, FALSE, o1, o2)} :
            /\ Within(m, labels)
            /\ Return("add_one_env", m,
                      [expert |-> TargetId(self, None), routed |-> TRUE,
                       custom_range |-> <<env>>, forces |-> TRUE])

Train(bounds_args, outcomes) ==
    \E self \in {Self}, custom_bounds \in bounds_args,
       o1 \in outcomes, o2 \in outcomes :
        /\ (custom_bounds \/ o1 = LinAlgFail \/ o2 = o1)
        /\ \E m \in {train(self, custom_bounds, o1, o2)} :
            Return("train", m, [custom_bounds |-> custom_bounds])

CheckLAlpha ==
    \E self \in {Self} :
        \E m \in {check_L_alpha(self)} :
            Return("check_L_alpha", m,
                   [repeat |-> ret.op = "check_L_alpha" /\ ret.exc = NoExc])

SetLAlpha ==
    \E self \in {Self} :
        \E m \in {set_L_alpha(self)} : Return("set_L_alpha", m, <<>>)

SetLAlphaPart ==
    \E self \in {Self}, e \in 0 .. (n_experts - 1) :
        \E m \in {set_L_alpha_part(self, e)} :
            Return("set_L_alpha_part", m, [expert |-> e])

UpdateLAlpha ==
    \E self \in {Self}, e \in 0 .. (n_experts - 1) :
        \E m \in {update_L_alpha(self, e)} :
            Return("update_L_alpha", m, [expert |-> e])

Predict(components, kernels, products) ==
    \E self \in {Self}, d \in components, self_kern \in kernels,
       kern \in [1 .. n_experts -> products] :
        \E m \in {predict(self, d, self_kern, kern)} :
            Return("predict", m,
                   [d |-> d, self_kern |-> self_kern, kern |-> kern])

\* one evaluation of the training objective, as minimize makes them
Objective(xs, results) ==
    \E self \in {Self}, x \in xs, values \in [1 .. n_experts -> results] :
        \E m \in {[self EXCEPT !.pred =
                      Some(rbcm_get_neg_like_grad(x, self.n_experts, values))]} :
            Return("rbcm_get_neg_like_grad", m, [x_0 |-> x, values |-> values])

WriteModel(formats) ==
    \E self \in {Self}, format \in formats :
        \E m \in {write_model(self, format)} :
            Return("write_model", m, [format |-> format])

\* gp = RobustBayesianCommitteeMachine.from_file(filename, format): the
\* loaded object takes the place of the live one
FromFile(filenames, formats) ==
    \E self \in {Self}, filename \in filenames, format \in formats,
       fresh \in BOOLEAN :
        \E m \in {RegistryAtLoad(from_file(self, filename, format), fresh)} :
            Return("from_file", m, [filename |-> filename, format |-> format])

ReplaceEntry ==
    \E self \in {Self}, i \in 1 .. n_experts :
        \E k \in 1 .. Len(training_data[i]) :
            \E env \in Atoms \ {training_data[i][k]} :
                \E m \in {replace_entry(self, i, k, env)} :
                    Return("replace_entry", m, [expert |-> i - 1])

\* a whole predict, train or check_L_alpha call of another model of the same
\* name: it begins with sync_data and reads what it wrote
OtherCall(others) ==
    \E self \in {Self}, b \in others :
        \E m \in {sync_data_of(b, self)} : Return("other", m, <<>>)

\* a build of this model during which a call of the other model begins
SetLAlphaOverlapped(others) ==
    \E self \in {Self}, b \in others :
        \E m \in {set_L_alpha_overlapped(self, b)} :
            Return("set_L_alpha", m, [overlapped |-> TRUE])

\* the property training_statistics is read
TrainingStatistics ==
    \E self \in {Self} :
        \E m \in {[self EXCEPT !.pred = Some(training_statistics(self))]} :
            Return("training_statistics", m, <<>>)

\* ------------------------------------------------------- the specifications
\* Spec: every operation, one environment per call, an optimizer that
\* converges at the initial hyperparameters.
Next ==
    \/ UpdateDb({<<1>>}, BOOLEAN, BOOLEAN, RouteOrLast, MaxLabels)
    \/ AddOneEnv({1}, {None}, MaxLabels)
    \/ AddOneEnvTrain({1}, {InitHyps}, MaxLabels)
    \/ Train({FALSE}, {InitHyps})
    \/ CheckLAlpha
    \/ SetLAlpha
    \/ Predict({0, 1}, {2}, {[mean |-> 1, quad |-> 0]})

Init == InitWith(InitExperts, {1}, {2})

Spec == Init /\ [][Next]_vars

\* SpecStore: the training store and the router under every argument.
NextStore ==
    \/ UpdateDb(CustomRanges, BOOLEAN, BOOLEAN, ExpertIdArgs, MaxStored)
    \/ AddOneEnv(Atoms, ExpertIdArgs, MaxStored)

InitStore == InitWith(InitExperts, NDataChoices, {2})

SpecStore == InitStore /\ [][NextStore]_vars

\* SpecPredict: routed environments, full factorization, and predictions
\* under every kernel value and prior variance.
NextPredict ==
    \/ AddOneEnv({1}, {None}, MaxLabels)
    \/ SetLAlpha
    \/ Predict({1, 2, 3}, SelfKerns, KernProducts)

InitPredict == InitWith(InitExperts, {1}, PriorVariances)

SpecPredict == InitPredict /\ [][NextPredict]_vars

\* SpecParts: one expert at a time, factorized and updated directly.
NextParts ==
    \/ UpdateDb({<<1>>}, {TRUE}, BOOLEAN, RouteOrLast, MaxLabels)
    \/ SetLAlphaPart
    \/ UpdateLAlpha

SpecParts == Init /\ [][NextParts]_vars


\* SpecTrain: training under every optimizer outcome, with and without
\* custom bounds, from every opt_algorithm, and the objective it minimizes.
NextTrain ==
    \/ AddOneEnv({1}, {None}, MaxLabels)
    \/ Train(BOOLEAN, OptOutcomes)
    \/ Objective(HypsSet, LikeResults)

InitTrain ==
    \E n \in InitExperts, a \in OptAlgorithms :
        InitFrom([Constructed(n) EXCEPT !.opt_algorithm = a], {1}, {2})

SpecTrain == InitTrain /\ [][NextTrain]_vars

\* SpecFail: factorization and prediction at hyperparameters where the
\* covariance matrix of a non-empty expert is not positive definite.
NextFail ==
    \/ UpdateDb({<<1>>}, BOOLEAN, BOOLEAN, {None}, MaxLabels)
    \/ Train({FALSE}, {InitHyps, BadHyps})
    \/ CheckLAlpha
    \/ SetLAlpha
    \/ Predict({1}, {2}, {[mean |-> 1, quad |-> 0]})

InitFail == InitWith(InitExperts, {0}, {2})

SpecFail == InitFail /\ [][NextFail]_vars

\* SpecPersist: a model that is stored to, factorized, written and loaded.
NextPersist ==
    \/ UpdateDb({<<1>>}, {TRUE}, BOOLEAN, {None}, MaxLabels)
    \/ SetLAlpha
    \/ WriteModel(Formats)
    \/ FromFile(FileNames, LoadFormats)

InitPersist == InitWith(InitExperts, {0}, {2})

SpecPersist == InitPersist /\ [][NextPersist]_vars

\* SpecStats: environments of both species stored, experts factorized by
\* check_L_alpha and train, and the statistics read in between.
NextStats ==
    \/ UpdateDb({<<>>, <<1>>}, BOOLEAN, BOOLEAN, {None}, MaxLabels)
    \/ AddOneEnv(Atoms, {None}, MaxLabels)
    \/ CheckLAlpha
    \/ Train({FALSE}, {InitHyps})
    \/ TrainingStatistics

SpecStats == Init /\ [][NextStats]_vars

\* SpecStale: experts that are factorized, edited in place by the caller
\* without a change of size, and then checked and predicted from.
NextStale ==
    \/ UpdateDb({<<1>>}, BOOLEAN, BOOLEAN, {None}, MaxLabels)
    \/ SetLAlpha
    \/ ReplaceEntry
    \/ CheckLAlpha
    \/ Predict({1}, {2}, {[mean |-> 1, quad |-> 0]})

SpecStale == Init /\ [][NextStale]_vars

\* SpecShared: two models of the same name; the calls of the second one run
\* between the calls of the first one, or begin during one of its builds.
NextShared ==
    \/ UpdateDb({<<1>>}, {TRUE}, BOOLEAN, {None}, MaxLabels)
    \/ CheckLAlpha
    \/ Train({FALSE}, {InitHyps})
    \/ Predict({1}, {2}, {[mean |-> 1, quad |-> 0]})
    \/ OtherCall(Others)
    \/ SetLAlphaOverlapped(Others)

SpecShared == Init /\ [][NextShared]_vars

\* ================================================================ claims
Experts == 1 .. n_experts

\* the call that just returned
Returned(op) == ret.op = op /\ ret.exc = NoExc

\* ---------------------------------------------------------------------- C1
\* The closed form of the aggregate, summed from the last expert down.
HasLabels(i) == AlphaLen(Val(alpha[i])) > 0
MeanOf(i) == IF HasLabels(i) THEN RInt(ret.kern[i].mean) ELSE RInt(0)
VarOf(i) ==
    RSub(RInt(ret.self_kern),
         IF HasLabels(i) THEN RInt(ret.kern[i].quad) ELSE RInt(0))
BetaOf(i) ==
    RMul(Rat(1, 2), RSub(Log(RInt(prior_variance)), Log(VarOf(i))))

RECURSIVE SumBeta(_)
SumBeta(i) == IF i = 0 THEN RInt(0) ELSE RAdd(BetaOf(i), SumBeta(i - 1))

RECURSIVE SumBetaOverVar(_)
SumBetaOverVar(i) ==
    IF i = 0 THEN RInt(0)
    ELSE RAdd(RDiv(BetaOf(i), VarOf(i)), SumBetaOverVar(i - 1))

RECURSIVE SumWeightedMean(_)
SumWeightedMean(i) ==
    IF i = 0 THEN RInt(0)
    ELSE RAdd(RMul(RDiv(BetaOf(i), VarOf(i)), MeanOf(i)),
              SumWeightedMean(i - 1))

TotalVar ==
    RAdd(SumBetaOverVar(n_experts),
         RDiv(RSub(RInt(1), SumBeta(n_experts)), RInt(prior_variance)))

\* C1: a prediction that returns gives pred_variance = 1/total_var with
\* total_var = sum_i beta_i/var_i + (1 - sum_i beta_i)/prior_variance and
\* pred_mean = pred_variance * sum_i beta_i/var_i * mean_i, where
\* beta_i = 0.5 * (log(prior_variance) - log(var_i)); with one expert the
\* variance is 1/(beta/var + (1 - beta)/prior_variance).
C1_Aggregation ==
    Returned("predict") =>
        /\ ret.pred =
              Some(<<RMul(RDiv(RInt(1), TotalVar), SumWeightedMean(n_experts)),
                     RDiv(RInt(1), TotalVar)>>)
        /\ n_experts = 1 =>
              Val(ret.pred)[2] =
                  RDiv(RInt(1),
                       RAdd(RDiv(BetaOf(1), VarOf(1)),
                            RDiv(RSub(RInt(1), BetaOf(1)),
                                 RInt(prior_variance))))

\* a prediction over two experts that both hold labels, with different
\* kernel products
C1_Witness ==
    /\ Returned("predict")
    /\ n_experts = 2
    /\ HasLabels(1) /\ HasLabels(2)
    /\ ret.kern[1] # ret.kern[2]
    /\ Val(ret.pred)[1] # RInt(0)

\* ---------------------------------------------------------------------- C2
\* C2: over every sequence of calls the current expert never decreases.
C2_MonotonicRouting == [][current_expert' >= current_expert]_vars

\* the router has advanced, and calls of every kind have followed
C2_Witness ==
    /\ current_expert = 1
    /\ ret.op \in {"check_L_alpha", "predict", "train"}

\* ---------------------------------------------------------------------- C3
\* the environments an update over the given indices appends
RECURSIVE EnvsOf(_)
EnvsOf(indices) ==
    IF indices = <<>> THEN <<>>
    ELSE <<AtomicEnvironment(Head(indices))>> \o EnvsOf(Tail(indices))

RoutedCall == ret'.op \in {"update_db", "add_one_env"} /\ ret'.routed

\* the current expert is above capacity and no next expert exists
Overflows ==
    /\ n_envs_prev[current_expert + 1] > ndata_per_expert
    /\ current_expert + 1 >= n_experts

\* what the call just made stored in a new expert
CallEnvs ==
    IF ~ret'.forces THEN <<>>
    ELSE IF ret'.op = "add_one_env" THEN ret'.custom_range
    ELSE EnvsOf(UpdateIndices(ret'.custom_range))

\* C3: an auto-routed call that overflows with no next expert creates exactly
\* one expert, whose factorization is None and whose stores hold exactly the
\* observations of that call; any other auto-routed call leaves n_experts.
C3_OneExpertCreated ==
    [][RoutedCall =>
        IF Overflows
        THEN /\ n_experts' = n_experts + 1
             /\ Len(training_data') = n_experts + 1
             /\ current_expert' = n_experts
             /\ ky_mat'[n_experts'] = None /\ l_mat'[n_experts'] = None
             /\ alpha'[n_experts'] = None /\ ky_mat_inv'[n_experts'] = None
             /\ ret'.exc = NoExc =>
                   /\ training_data'[n_experts'] = CallEnvs
                   /\ n_envs_prev'[n_experts'] = Len(CallEnvs)
                   /\ Len(energy_labels'[n_experts']) =
                          (IF ret'.energy THEN 1 ELSE 0)
        ELSE n_experts' = n_experts]_vars

\* an auto-routed update has created the second expert and stored in it
C3_Witness ==
    /\ ret.op = "update_db" /\ ret.routed /\ ret.exc = NoExc
    /\ n_experts = 2 /\ current_expert = 1 /\ ret.expert = 1
    /\ training_data[1] # <<>>
    /\ training_data[2] # <<>>

\* ---------------------------------------------------------------------- C4
\* expert i (1-based) holds training data and has never been factorized
NeverFactorized(i) ==
    /\ training_data[i] # <<>>
    /\ (l_mat[i] = None \/ ky_mat[i] = None)

\* C4: when an expert holds training data and has never been factorized,
\* check_L_alpha rebuilds it in full and returns normally with K, L, K^-1 and
\* alpha set.
C4_RebuildWhenNeverFactorized ==
    [][ret'.op = "check_L_alpha" =>
        \A i \in Experts :
            NeverFactorized(i) =>
                /\ ret'.exc = NoExc
                /\ (i - 1) \in ret'.rebuilt
                /\ ky_mat'[i] # None /\ l_mat'[i] # None
                /\ ky_mat_inv'[i] # None /\ alpha'[i] # None]_vars

\* ---------------------------------------------------------------------- C5
\* expert i has a factorization and environments were appended since
AppendedSince(i) ==
    /\ l_mat[i] # None /\ ky_mat[i] # None /\ alpha[i] # None
    /\ Len(training_data[i]) > Len(Val(ky_mat[i]).data)

\* C5: when an expert has a factorization and environments were appended to
\* it since, check_L_alpha completes normally and alpha's length is the
\* expert's label count afterwards.
C5_IncrementalCompletes ==
    [][ret'.op = "check_L_alpha" =>
        \A i \in Experts :
            AppendedSince(i) =>
                /\ ret'.exc = NoExc
                /\ alpha'[i] # None
                /\ AlphaLen(Val(alpha'[i])) = Len(all_labels'[i])]_vars

\* ---------------------------------------------------------------------- C6
\* C6: a check_L_alpha that directly follows a check_L_alpha rebuilds
\* nothing, whatever mix of force and energy labels the experts hold.
C6_SecondCheckRebuildsNothing ==
    (Returned("check_L_alpha") /\ ret.repeat) => ret.rebuilt = {}

\* ---------------------------------------------------------------------- C7
\* the factorization of expert i is the one of its present training data
Current(i) ==
    /\ ky_mat[i] # None /\ l_mat[i] # None
    /\ ky_mat_inv[i] # None /\ alpha[i] # None
    /\ Val(ky_mat[i]).data = training_data[i]
    /\ Val(ky_mat[i]).strucs = training_structures[i]
    /\ Val(alpha[i]).labels = all_labels[i]

\* C7: after check_L_alpha returns normally every expert that holds a label
\* has a current factorization, also when a lower expert is empty.
C7_EveryExpertCurrent ==
    Returned("check_L_alpha") =>
        \A i \in Experts : Len(all_labels[i]) > 0 => Current(i)

\* ---------------------------------------------------------------------- C8
\* C8: for a factorized expert extended by appended rows, the covariance
\* matrix update_L_alpha leaves is the one a full rebuild computes.
C8_IncrementalEqualsRebuild ==
    [][(/\ ret'.op = "update_L_alpha"
        /\ AppendedSince(ret'.expert + 1)) =>
            ky_mat'[ret'.expert + 1] =
                Some(get_Ky_mat(sync_one_data(Self, ret'.expert),
                                ret'.expert))]_vars

\* ---------------------------------------------------------------------- C9
\* the expert (1-based) the returned call stored in
Target == PyIndex(ret'.expert, n_experts')

RECURSIVE ForcesOf(_)
ForcesOf(indices) ==
    IF indices = <<>> THEN <<>>
    ELSE <<ForceOf(Head(indices))>> \o ForcesOf(Tail(indices))

\* a per-expert list before the call, a created expert starting from fresh
Before(store, i, fresh) == IF i <= Len(store) THEN store[i] ELSE fresh

\* C9: update_db with forces appends one (environment, force) pair per atom
\* of custom_range, or per atom of the structure when custom_range is empty,
\* to the target expert, adds one to its count per pair, and changes no other
\* expert's force store.
C9_ForcesAppended ==
    [][(ret'.op = "update_db" /\ ret'.forces /\ ret'.exc = NoExc) =>
        LET indices == IF ret'.custom_range = <<>> THEN AllAtoms
                       ELSE ret'.custom_range
        IN /\ training_data'[Target] =
                  Before(training_data, Target, <<>>) \o EnvsOf(indices)
           /\ training_labels'[Target] =
                  Before(training_labels, Target, <<>>) \o ForcesOf(indices)
           /\ n_envs_prev'[Target] =
                  Before(n_envs_prev, Target, 0) + Len(indices)
           /\ \A i \in (1 .. n_experts') \ {Target} :
                  /\ training_data'[i] = Before(training_data, i, <<>>)
                  /\ training_labels'[i] = Before(training_labels, i, <<>>)
                  /\ n_envs_prev'[i] = Before(n_envs_prev, i, 0)]_vars

\* an update with an empty custom_range has stored both atoms of the
\* structure in the second of two experts and left the first alone
C9_Witness ==
    /\ Returned("update_db") /\ ret.forces /\ ret.custom_range = <<>>
    /\ n_experts = 2
    /\ training_data[1] = <<>>
    /\ training_data[2] = <<0, 1>>
    /\ training_labels[2] = <<ForceOf(0), ForceOf(1)>>
    /\ n_envs_prev[2] = 2

\* --------------------------------------------------------------------- C10
\* C10: update_db with an energy appends one structure entry, of the
\* environments of all atoms whatever custom_range is, and one energy label
\* to the target expert, with or without forces; the two stores keep the
\* same length.
C10_EnergyAppended ==
    [][(ret'.op = "update_db" /\ ret'.energy /\ ret'.exc = NoExc) =>
        /\ training_structures'[Target] =
              Append(Before(training_structures, Target, <<>>),
                     EnvsOf(AllAtoms))
        /\ energy_labels'[Target] =
              Append(Before(energy_labels, Target, <<>>), TheEnergy)
        /\ Len(training_structures'[Target]) = Len(energy_labels'[Target])
        /\ ~ret'.forces =>
              training_data'[Target] = Before(training_data, Target, <<>>)]_vars

\* an update with forces for atom 1 only and an energy has stored one
\* environment and the structure of both atoms
C10_Witness ==
    /\ Returned("update_db") /\ ret.forces /\ ret.energy
    /\ ret.custom_range = <<1>>
    /\ \E i \in Experts :
          /\ training_data[i] = <<1>>
          /\ training_structures[i] = <<<<0, 1>>>>
          /\ energy_labels[i] = <<TheEnergy>>

\* --------------------------------------------------------------------- C11
\* the label vector of expert i is its force labels, flattened, followed by
\* its energy labels, and its environments and force labels are aligned
LabelsConsistent(i) ==
    /\ all_labels[i] = HStack(training_labels[i]) \o energy_labels[i]
    /\ Len(all_labels[i]) = 3 * Len(training_data[i]) + Len(energy_labels[i])
    /\ Len(training_data[i]) = Len(training_labels[i])

\* C11: after every completed update_db or add_one_env, every expert's
\* all_labels is [flattened force labels, energy labels], of length
\* 3 * len(training_data) + len(energy_labels), and training_data and
\* training_labels have the same length.
C11_LabelsConsistentAfterUpdate ==
    (ret.op \in {"update_db", "add_one_env"} /\ ret.exc = NoExc) =>
        \A i \in Experts : LabelsConsistent(i)

\* --------------------------------------------------------------------- C12
\* the object and the registry, without the record of the last call
object == <<n_experts, current_expert, ndata_per_expert, prior_variance,
            training_data, training_labels, training_labels_np, n_envs_prev,
            training_structures, energy_labels, energy_labels_np, all_labels,
            ky_mat, l_mat, alpha, ky_mat_inv, likelihood,
            hyps, opt_algorithm, total_likelihood, total_likelihood_gradient,
            logger, registry>>

\* C12: predict with d outside {1, 2, 3} raises AssertionError, returns no
\* (mean, variance) and leaves the object and the registry as they were.
C12_InvalidComponentRejected ==
    [][(ret'.op = "predict" /\ ret'.d \notin {1, 2, 3}) =>
        /\ ret'.exc = "AssertionError"
        /\ ret'.pred = None
        /\ UNCHANGED object]_vars

\* predict(x_t, 0) has been rejected on a model that holds data the registry
\* has not seen yet
C12_Witness ==
    /\ ret.op = "predict" /\ ret.d = 0 /\ ret.exc = "AssertionError"
    /\ \E i \in Experts :
          /\ training_data[i] # <<>>
          /\ (i - 1) \notin DOMAIN registry

\* --------------------------------------------------------------------- C13
RECURSIVE LabelsFrom(_)
\* the labeled entries (environments and energies) of experts 1 .. i
LabelsFrom(i) ==
    IF i = 0 THEN 0
    ELSE Len(training_data[i]) + Len(energy_labels[i]) + LabelsFrom(i - 1)

EmptyStore == n_experts >= 1 /\ LabelsFrom(n_experts) = 0

\* C13: train on a model without any labeled entry raises the empty-model
\* error before an optimizer runs and leaves the hyperparameters unchanged.
C13_TrainEmptyRejected ==
    [][(ret'.op = "train" /\ EmptyStore) =>
        /\ ret'.exc = EmptyModelError
        /\ ret'.runs = 0
        /\ hyps' = hyps]_vars

\* --------------------------------------------------------------------- C14
\* C14: predict with a valid d on a model without any labeled entry raises
\* the empty-model error and returns no (mean, variance).
C14_PredictEmptyRejected ==
    [][(ret'.op = "predict" /\ ret'.d \in {1, 2, 3} /\ EmptyStore) =>
        /\ ret'.exc = EmptyModelError
        /\ ret'.pred = None]_vars

\* --------------------------------------------------------------------- C15
\* the first optimizer run of the returned train was L-BFGS-B and raised
\* LinAlgError
PrimaryFailed ==
    /\ ret'.op = "train"
    /\ Len(ret'.methods) >= 1
    /\ ret'.methods[1] = <<"L-BFGS-B", TRUE>>

\* C15: when L-BFGS-B raises LinAlgError in train, the same call goes on
\* with BFGS, with or without custom_bounds, and opt_algorithm is 'BFGS'
\* from then on.
C15_FallbackIsBFGS ==
    [][/\ PrimaryFailed =>
            /\ Len(ret'.methods) = 2
            /\ ret'.methods[2][1] = "BFGS"
            /\ opt_algorithm' = "BFGS"
       /\ opt_algorithm = "BFGS" => opt_algorithm' = "BFGS"]_vars

\* --------------------------------------------------------------------- C16
\* the returned train ran through all its branches and none gave a result
NoResult ==
    /\ ret'.op = "train"
    /\ ret'.exc # "LinAlgError"
    /\ \A k \in DOMAIN ret'.methods : ret'.methods[k][2]

\* C16: when no optimization method gives a result, train raises
\* RuntimeError and leaves hyps, every expert's K, L, K^-1 and alpha, and the
\* cached total likelihood and gradient as they were.
C16_NoResultIsFatal ==
    [][NoResult =>
        /\ ret'.exc = "RuntimeError"
        /\ UNCHANGED <<hyps, ky_mat, l_mat, ky_mat_inv, alpha,
                       total_likelihood, total_likelihood_gradient>>]_vars

\* a train with opt_algorithm 'nelder-mead' and no custom_bounds has failed
\* on a model that holds data
C16_Witness ==
    /\ ret.op = "train" /\ ret.exc = "RuntimeError"
    /\ opt_algorithm = "nelder-mead" /\ ~ret.custom_bounds
    /\ \E i \in Experts : training_data[i] # <<>>

\* --------------------------------------------------------------------- C17
\* expert i is factorized in full at the present hyperparameters and data
FactorizedAtHyps(i) ==
    LET ky == [data |-> training_data[i], strucs |-> training_structures[i],
               hyps |-> hyps]
    IN /\ ky_mat[i] = Some(ky)
       /\ l_mat[i] = Some(Cholesky(ky))
       /\ ky_mat_inv[i] = Some(InvFromChol(Cholesky(ky)))
       /\ alpha[i] = Some(MatVec(InvFromChol(Cholesky(ky)), all_labels[i]))

\* C17: after train returns normally hyps is the optimizer's result, every
\* expert is factorized in full at those hyperparameters against its present
\* data, and total_likelihood and total_likelihood_gradient are -res.fun and
\* -res.jac of that result.
C17_TrainedModel ==
    Returned("train") =>
        /\ ret.pred # None /\ hyps = Val(ret.pred)
        /\ ret.rebuilt = 0 .. (n_experts - 1)
        /\ \A i \in Experts : FactorizedAtHyps(i)
        /\ total_likelihood = Some(<<"-res.fun", Val(ret.pred)>>)
        /\ total_likelihood_gradient = Some(<<"-res.jac", Val(ret.pred)>>)

\* a train over two experts that hold data has returned hyperparameters
\* other than the starting ones
C17_Witness ==
    /\ Returned("train")
    /\ n_experts = 2
    /\ training_data[1] # <<>> /\ training_data[2] # <<>>
    /\ hyps = OtherHyps

\* --------------------------------------------------------------------- C18
RECURSIVE SumLike(_)
SumLike(i) == IF i = 0 THEN 0 ELSE ret.values[i].like + SumLike(i - 1)

RECURSIVE SumGrad(_)
SumGrad(i) ==
    IF i = 1 THEN ret.values[1].grad
    ELSE [k \in DOMAIN ret.values[i].grad |->
            ret.values[i].grad[k] + SumGrad(i - 1)[k]]

\* C18: rbcm_get_neg_like_grad returns the sum of the experts' negative log
\* likelihoods and the element-wise sum of their gradients, each expert
\* evaluated once, with the shared hyperparameters and its own key.
C18_ObjectiveIsSum ==
    ret.op = "rbcm_get_neg_like_grad" =>
        /\ Val(ret.pred).like = SumLike(n_experts)
        /\ Val(ret.pred).like_grad = Some(SumGrad(n_experts))
        /\ Val(ret.pred).calls = [i \in 1 .. n_experts |-> <<ret.x_0, i - 1>>]

\* the objective of two experts with different likelihoods and gradients
C18_Witness ==
    /\ ret.op = "rbcm_get_neg_like_grad"
    /\ n_experts = 2
    /\ ret.values[1] # ret.values[2]
    /\ Val(ret.pred).like = -1

\* --------------------------------------------------------------------- C19
\* the returned call was update_db or add_one_env with an expert id given
ExplicitCall == ret'.op \in {"update_db", "add_one_env"} /\ ~ret'.routed

\* C19: update_db / add_one_env with an expert id greater than n_experts, or
\* negative, raises and changes nothing: n_experts, the containers and every
\* expert's stores are as before.
C19_InconsistentIdRejected ==
    [][(ExplicitCall /\ (ret'.expert > n_experts \/ ret'.expert < 0)) =>
        /\ ret'.exc # NoExc
        /\ UNCHANGED object]_vars

\* --------------------------------------------------------------------- C20
\* the per-expert stores
stores == <<training_data, training_labels, training_labels_np, n_envs_prev,
            training_structures, energy_labels, energy_labels_np, all_labels>>

\* the stores of expert i
StoresOf(s, i) == [k \in DOMAIN s |-> s[k][i]]

\* C20: update_db / add_one_env with the id of an existing expert appends to
\* exactly that expert and leaves current_expert, n_experts and every other
\* expert's stores as they were.
C20_ExplicitIdBypassesRouting ==
    [][(ExplicitCall /\ ret'.expert >= 0 /\ ret'.expert < n_experts) =>
        /\ current_expert' = current_expert
        /\ n_experts' = n_experts
        /\ \A i \in Experts \ {ret'.expert + 1} :
              StoresOf(stores', i) = StoresOf(stores, i)
        /\ ret'.exc = NoExc =>
              /\ training_data'[ret'.expert + 1] =
                    training_data[ret'.expert + 1] \o CallEnvs
              /\ Len(energy_labels'[ret'.expert + 1]) =
                    Len(energy_labels[ret'.expert + 1])
                        + (IF ret'.energy THEN 1 ELSE 0)]_vars

\* an environment has been added to expert 0 by its id although expert 0 was
\* already above its capacity, and the router has not moved
C20_Witness ==
    /\ ret.op \in {"update_db", "add_one_env"} /\ ~ret.routed
    /\ ret.exc = NoExc /\ ret.expert = 0 /\ ret.forces
    /\ ndata_per_expert = 0
    /\ Len(training_data[1]) = 2
    /\ current_expert = 0

\* --------------------------------------------------------------------- C21
\* the returned call is one that reads the registry: predict past its
\* assertion, train, set_L_alpha or check_L_alpha
ReadsRegistry ==
    /\ ret'.op \in {"predict", "train", "set_L_alpha", "check_L_alpha"}
    /\ ret'.exc # "AssertionError"

\* C21: within every predict, train, set_L_alpha and check_L_alpha call the
\* registry entries of all keys 0 .. n_experts - 1 are rewritten from the
\* model's stores before anything is computed from them: after the call every
\* key holds the stores as of the start of the call, and every covariance
\* matrix the call built was built over those stores.
C21_RegistryRefreshed ==
    [][ReadsRegistry =>
        /\ \A e \in 0 .. (n_experts - 1) :
              /\ e \in DOMAIN registry'
              /\ registry'[e].data = training_data[e + 1]
              /\ registry'[e].labels = training_labels_np[e + 1]
              /\ registry'[e].strucs = training_structures[e + 1]
              /\ registry'[e].elabels = energy_labels_np[e + 1]
        /\ \A e \in ret'.rebuilt :
              /\ Val(ky_mat'[e + 1]).data = training_data[e + 1]
              /\ Val(ky_mat'[e + 1]).strucs = training_structures[e + 1]]_vars

\* set_L_alpha has factorized two experts that hold force labels, one of
\* them with an energy label, from a registry that holds their stores
C21_Witness ==
    /\ Returned("set_L_alpha")
    /\ n_experts = 2
    /\ ret.rebuilt = {0, 1}
    /\ training_data[1] # <<>> /\ training_data[2] # <<>>
    /\ \E i \in Experts : energy_labels[i] # <<>>
    /\ \A i \in Experts : registry[i - 1].labels = training_labels_np[i]

C23_UnsupportedFormatRejected ==
    [][(/\ ret'.op = "write_model"
        /\ Lower(ret'.format) \notin {"pickle", "binary"}) =>
            /\ ret'.exc = "ValueError"
            /\ UNCHANGED pickle_file
            /\ UNCHANGED object]_vars

\* --------------------------------------------------------------------- C24
\* the attributes the round trip is about
RoundTripFields ==
    {"n_experts", "current_expert", "hyps",
     "training_data", "training_labels", "training_structures",
     "energy_labels", "training_labels_np", "energy_labels_np", "all_labels",
     "ky_mat", "l_mat", "alpha", "ky_mat_inv"}

RoundTrip(m) == [k \in RoundTripFields |-> m[k]]

\* the prediction of m for a fixed query
Query(m) ==
    predict(m, 1, 2, [i \in 1 .. m.n_experts |-> [mean |-> 1, quad |-> 0]])

SizeThreshold == 1

RECURSIVE SumEnvs(_)
\* np.sum(self.n_envs_prev) over experts 1 .. i
SumEnvs(i) == IF i = 0 THEN 0 ELSE n_envs_prev[i] + SumEnvs(i - 1)

\* C25: when the total training size exceeds the size threshold, write_model
\* writes the snapshot without K, L, alpha and K^-1, and the four fields of
\* the live model are afterwards what they were before the call.
C25_LargeModelExternalized ==
    [][(/\ ret'.op = "write_model" /\ ret'.exc = NoExc
        /\ SumEnvs(n_experts) > SizeThreshold) =>
            /\ pickle_file' # None
            /\ \A i \in Experts :
                  /\ Val(pickle_file').ky_mat[i] = None
                  /\ Val(pickle_file').l_mat[i] = None
                  /\ Val(pickle_file').alpha[i] = None
                  /\ Val(pickle_file').ky_mat_inv[i] = None
            /\ UNCHANGED <<ky_mat, l_mat, alpha, ky_mat_inv>>]_vars

\* --------------------------------------------------------------------- C26
RECURSIVE TotalEnvs(_)
\* the environments stored in experts 1 .. i
TotalEnvs(i) ==
    IF i = 0 THEN 0 ELSE Len(training_data[i]) + TotalEnvs(i - 1)

RECURSIVE SumCounts(_, _)
\* the sum of the counts c over the species of S
SumCounts(c, S) ==
    IF S = {} THEN 0
    ELSE LET s == CHOOSE x \in S : TRUE
         IN c[s] + SumCounts(c, S \ {s})

\* C26: in every state reached by update_db, add_one_env, check_L_alpha and
\* train, training_statistics reports for every expert i the number of
\* environments stored in expert i as N_i, and its per-species counts sum to
\* the number of environments stored over all experts.
C26_StatisticsCountStores ==
    ret.op = "training_statistics" =>
        LET data == Val(ret.pred)
        IN /\ \A i \in Experts : data.N[i - 1] = Len(training_data[i])
           /\ SumCounts(data.envs_by_species, DOMAIN data.envs_by_species) =
                  TotalEnvs(n_experts)
           /\ data.species = DOMAIN data.envs_by_species

\* the statistics of two experts holding three environments of two species,
\* the first expert factorized
C26_Witness ==
    /\ ret.op = "training_statistics"
    /\ n_experts = 2
    /\ TotalEnvs(n_experts) = 3
    /\ training_data[2] # <<>>
    /\ ky_mat[1] # None
    /\ Val(ret.pred).species = {"H", "C"}

\* --------------------------------------------------------------------- C27
\* the call before was an update_db that added an energy label
EnergyJustAdded == ret.op = "update_db" /\ ret.energy /\ ret.exc = NoExc

\* C27: after update_db has added an energy label to an expert, with or
\* without forces, the next check_L_alpha or predict refreshes that expert:
\* its covariance matrix and alpha have dimension
\* 3 * #environments + #structures afterwards.
C27_EnergyLabelRefreshes ==
    [][(/\ EnergyJustAdded
        /\ ret'.op \in {"check_L_alpha", "predict"}
        /\ ret'.exc # "AssertionError") =>
            LET t == PyIndex(ret.expert, n_experts)
                dim == 3 * Len(training_data[t]) + Len(training_structures[t])
            IN /\ ky_mat'[t] # None /\ alpha'[t] # None
               /\ MatSize(Val(ky_mat'[t])) = dim
               /\ AlphaLen(Val(alpha'[t])) = dim]_vars

\* --------------------------------------------------------------------- C28
\* C28: for every factorized expert, n_envs_prev is the number of
\* environments the cached covariance matrix covers: it is set when a
\* factorization completes and keeps that value until the next one, so that
\* the incremental update is handed the size at the last factorization.
C28_PrevSizeIsCachedSize ==
    \A i \in Experts :
        ky_mat[i] # None => n_envs_prev[i] = Len(Val(ky_mat[i]).data)

\* --------------------------------------------------------------------- C29
\* K, L, K^-1 and alpha of expert i are all None, or L, K^-1 and alpha are
\* those of K
OneSnapshot(i) ==
    \/ /\ ky_mat[i] = None /\ l_mat[i] = None
       /\ ky_mat_inv[i] = None /\ alpha[i] = None
    \/ /\ ky_mat[i] # None /\ l_mat[i] # None
       /\ ky_mat_inv[i] # None /\ alpha[i] # None
       /\ l_mat[i] = Some(Cholesky(Val(ky_mat[i])))
       /\ ky_mat_inv[i] = Some(InvFromChol(Val(l_mat[i])))
       /\ Val(alpha[i]).inv = Val(ky_mat_inv[i]).inv

\* a factorization of expert f (0-based) that failed leaves its four fields
\* and its n_envs_prev as they were
FailureKeeps(f) ==
    /\ ky_mat'[f + 1] = ky_mat[f + 1]
    /\ l_mat'[f + 1] = l_mat[f + 1]
    /\ ky_mat_inv'[f + 1] = ky_mat_inv[f + 1]
    /\ alpha'[f + 1] = alpha[f + 1]
    /\ n_envs_prev'[f + 1] = n_envs_prev[f + 1]

\* C29: between public operations every expert's ky_mat, l_mat, ky_mat_inv
\* and alpha are all None or all set from one and the same covariance
\* matrix, and a Cholesky failure leaves the four and n_envs_prev of the
\* expert at their previous values.
C29_FactorsOfOneMatrix ==
    /\ [](\A i \in Experts : OneSnapshot(i))
    /\ [][\A f \in ret'.failed : FailureKeeps(f)]_vars

\* the factorization of an expert has failed at new hyperparameters, and
\* the expert keeps the factors of the old ones
C29_Witness ==
    /\ ret.failed # {}
    /\ \E f \in ret.failed :
          /\ ky_mat[f + 1] # None
          /\ Val(ky_mat[f + 1]).hyps = InitHyps
    /\ hyps = BadHyps

\* --------------------------------------------------------------------- C30
\* the observations expert i (1-based) holds
Observations(i) == Len(training_data[i]) + Len(energy_labels[i])

\* C30: an auto-routed update_db / add_one_env made when the current
\* expert's count exceeds ndata_per_expert stores in the next expert, and
\* that expert is new or held no observation before the call (so it was not
\* itself above capacity).
C30_OverflowGoesToEmptyExpert ==
    [][(/\ RoutedCall
        /\ n_envs_prev[current_expert + 1] > ndata_per_expert) =>
            /\ ret'.expert = current_expert + 1
            /\ \/ ret'.expert >= n_experts
               \/ /\ Observations(ret'.expert + 1) = 0
                  /\ n_envs_prev[ret'.expert + 1] <= ndata_per_expert]_vars

\* --------------------------------------------------------------------- C31
\* the per-expert lists of the object
PerExpert ==
    {"training_data", "training_labels", "training_labels_np", "n_envs_prev",
     "training_structures", "energy_labels", "energy_labels_np", "all_labels",
     "ky_mat", "l_mat", "alpha", "ky_mat_inv", "likelihood"}

\* a list in reverse order
Reversed(list) == [k \in DOMAIN list |-> list[Len(list) + 1 - k]]

\* the model with its experts, their data and factorizations, in reverse
\* order, before any registry key is written
Permuted(m) ==
    [k \in DOMAIN m |->
        IF k \in PerExpert THEN Reversed(m[k])
        ELSE IF k = "registry" THEN <<>>
        ELSE m[k]]

\* what a call gave: its return value, or the fact that it raised
Outcome(m) == <<m.exc = NoExc, IF m.exc = NoExc THEN m.pred ELSE None>>

\* kernel products that differ between the experts
QueryKern == <<[mean |-> 1, quad |-> 0], [mean |-> -2, quad |-> 1]>>

\* C31: predict and the training objective go through the experts in
\* increasing id order, and their results do not depend on that order: with
\* the experts, their data and factorizations permuted, predict gives the
\* same mean and variance and the objective the same sum and gradient.
C31_OrderIndependent ==
    /\ n_experts = 2 =>
          Outcome(predict(Self, 1, 2, QueryKern)) =
              Outcome(predict(Permuted(Self), 1, 2, Reversed(QueryKern)))
    /\ ret.op = "rbcm_get_neg_like_grad" =>
          LET there == Val(ret.pred)
              back == rbcm_get_neg_like_grad(ret.x_0, n_experts,
                                             Reversed(ret.values))
          IN /\ there.calls = [i \in 1 .. n_experts |-> <<ret.x_0, i - 1>>]
             /\ there.like = back.like
             /\ there.like_grad = back.like_grad

\* --------------------------------------------------------------------- C32
\* s is t, or t with entries removed at the end
IsPrefix(s, t) == Len(s) <= Len(t) /\ SubSeq(t, 1, Len(s)) = s

\* C32: experts are never merged or deleted and their stores are
\* append-only: in every step n_experts does not decrease and every expert's
\* training_data, training_labels, training_structures and energy_labels
\* are extended at the end, if they change at all.
C32_AppendOnly ==
    [][/\ n_experts' >= n_experts
       /\ \A i \in Experts :
             /\ IsPrefix(training_data[i], training_data'[i])
             /\ IsPrefix(training_labels[i], training_labels'[i])
             /\ IsPrefix(training_structures[i], training_structures'[i])
             /\ IsPrefix(energy_labels[i], energy_labels'[i])]_vars

\* in a model of two experts an environment has been appended behind a
\* different one in the first expert
C32_Witness ==
    /\ ret.op = "add_one_env" /\ ret.exc = NoExc
    /\ n_experts = 2 /\ ndata_per_expert = 0
    /\ Len(training_data[1]) = 2
    /\ training_data[1][1] # training_data[1][2]
    /\ ret.custom_range = <<training_data[1][2]>>

\* --------------------------------------------------------------------- C33
\* the data of expert i was changed since its factorization, to the same
\* number of environments and structures
ChangedAtSameCount(i) ==
    /\ ky_mat[i] # None /\ alpha[i] # None
    /\ Val(ky_mat[i]).data # training_data[i]
    /\ Len(Val(ky_mat[i]).data) = Len(training_data[i])
    /\ Len(Val(ky_mat[i]).strucs) = Len(training_structures[i])

\* C33: when an expert's data was changed to the same total count as at its
\* last factorization, check_L_alpha does not detect it and rebuilds
\* nothing for the expert, and predict returns from the stale factorization.
C33_SameCountNotDetected ==
    [][(/\ ret'.op \in {"check_L_alpha", "predict"}
        /\ ret'.exc # "AssertionError") =>
            \A i \in Experts :
                ChangedAtSameCount(i) =>
                    /\ ret'.exc = NoExc
                    /\ (i - 1) \notin ret'.rebuilt
                    /\ ky_mat'[i] = ky_mat[i]
                    /\ alpha'[i] = alpha[i]]_vars

\* the same for the experts without energy labels, where the size test of
\* check_L_alpha compares like with like
C33_ForceOnlyNotDetected ==
    [][(/\ ret'.op \in {"check_L_alpha", "predict"}
        /\ ret'.exc # "AssertionError") =>
            \A i \in Experts :
                (ChangedAtSameCount(i) /\ energy_labels[i] = <<>>) =>
                    /\ (i - 1) \notin ret'.rebuilt
                    /\ ky_mat'[i] = ky_mat[i]
                    /\ alpha'[i] = alpha[i]]_vars

\* --------------------------------------------------------------------- C34
\* C34: after construction and after every completed update_db and
\* add_one_env all per-expert lists have length n_experts, and
\* 0 <= current_expert < n_experts.
C34_ParallelLists ==
    (ret.op = "__init__" \/
     (ret.op \in {"update_db", "add_one_env"} /\ ret.exc = NoExc)) =>
        /\ \A k \in PerExpert : Len(Self[k]) = n_experts
        /\ 0 <= current_expert /\ current_expert < n_experts

\* a routed call has created the second expert and made it the current one
C34_Witness ==
    /\ ret.op \in {"update_db", "add_one_env"} /\ ret.exc = NoExc
    /\ ret.routed /\ ret.expert = 1
    /\ n_experts = 2 /\ current_expert = 1
    /\ training_data[2] # <<>>
    /\ Len(likelihood) = 2

\* --------------------------------------------------------------------- C35
\* C35: two models of the same name write the same registry keys; when
\* their predict, train and check_L_alpha calls run one after another, every
\* registry read made inside a call of this model observes this model's own
\* lists and label arrays, whatever the other model wrote before the call.
C35_SequentialReadsOwn ==
    (ret.op \in {"predict", "train", "check_L_alpha"} /\ ~ret.overlapped) =>
        \A r \in ret.seen : r.entry = RegistryEntry(Self, r.key)

\* a predict of a one-expert model has read its key after a two-expert model
\* of the same name had written both keys
C35_Witness ==
    /\ Returned("predict") /\ ~ret.overlapped
    /\ n_experts = 1 /\ training_data[1] # <<>>
    /\ \E r \in ret.seen : r.key = 0 /\ r.entry.own
    /\ 1 \in DOMAIN registry /\ ~registry[1].own

\* a build that a call of the other model overlaps has read the other
\* model's data under its own key
C35_OverlapObservesOther ==
    /\ ret.op = "set_L_alpha" /\ ret.overlapped
    /\ \E r \in ret.seen : r.entry # RegistryEntry(Self, r.key)

\* ... and has factorized a matrix over the other model's environments
C35_OverlapBuildsFromOther ==
    /\ Returned("set_L_alpha") /\ ret.overlapped
    /\ \E e \in ret.rebuilt : Val(ky_mat[e + 1]).data # training_data[e + 1]

\* --------------------------------------------------------------------- C36
\* C36: one train call runs the optimizer at most once, or twice when the
\* first run was L-BFGS-B and raised LinAlgError; what it returns and stores
\* in hyps is the result of its last run; for every opt_algorithm, with and
\* without custom_bounds.
C36_OneRunUnlessFailure ==
    [][ret'.op = "train" =>
        /\ ret'.runs <= 2
        /\ ret'.runs = 2 => ret'.methods[1] = <<"L-BFGS-B", TRUE>>
        /\ ret'.exc = NoExc =>
              /\ ret'.runs >= 1
              /\ ret'.pred = ret'.results[ret'.runs]
              /\ hyps' = Val(ret'.pred)]_vars

\* the part about the result: a train that returns hands back and stores
\* the result of its last optimizer run
C36_LastRunInstalled ==
    [][(ret'.op = "train" /\ ret'.exc = NoExc) =>
        /\ ret'.runs \in {1, 2}
        /\ ret'.pred = ret'.results[ret'.runs]
        /\ hyps' = Val(ret'.pred)]_vars

\* the part about the number of runs, for calls without custom_bounds
C36_OneRunWithoutBounds ==
    [][(ret'.op = "train" /\ ~ret'.custom_bounds) =>
        /\ ret'.runs <= 2
        /\ ret'.runs = 2 => /\ ret'.methods[1] = <<"L-BFGS-B", TRUE>>
                            /\ ret'.methods[2][1] = "BFGS"]_vars

\* a train with custom_bounds has run L-BFGS-B twice without any failure and
\* stored the second result, which differs from the first
C36_TwoRunsNoFailure ==
    /\ Returned("train") /\ ret.custom_bounds
    /\ ret.methods = <<<<"L-BFGS-B", FALSE>>, <<"L-BFGS-B", FALSE>>>>
    /\ ret.results[1] # ret.results[2]
    /\ hyps = Val(ret.results[2])

====
